---- MODULE Spec2Model ----
(***************************************************************************)
(* The in-memory publish/subscribe broker of pubsub/pubsub.go (the variant *)
(* whose state is PubSub.topics, a map topic -> subscriber -> []Message,   *)
(* guarded by the embedded sync.Mutex).  Every handler takes ps.Lock() on  *)
(* entry and releases it on return, so one handler call is one action.     *)
(*                                                                         *)
(* History variables (nPub, pubTo, due, polled, discarded, preSub,         *)
(* preCreate, lastOp) and the id field of a buffered message are not       *)
(* program state: they record what the calls did so that properties about  *)
(* "the message published by that call" can be written.  The per-          *)
(* subscription histories are kept for one subscription, watch.  The       *)
(* handlers use topic and subscriber names only as map keys, so what holds *)
(* for watch, which has a second subscriber on its topic and a second      *)
(* topic beside it, holds for every subscription in that situation.        *)
(***************************************************************************)
EXTENDS Integers, Sequences, FiniteSets, TLC

\* ---------------------------------------------------------------- bounds
MaxPub == 2                      \* number of PublishMessage calls explored

Topics      == {"t1", "t2"}      \* :topic_name values
Subscribers == {"s1", "s2"}      \* :subscriber_name values
Contents    == {"a"}             \* "message" values of a request body
Clock       == {1, 2}            \* readings time.Now() can give
CallerTimes == {0, 2}            \* "published" of a request body (0: omitted)

Keys == Topics \X Subscribers

\* The (topic, subscriber) pairs Subscribe is called with: two subscribers of
\* one topic and a subscriber of another.
SubscribeKeys == {<<"t1", "s1">>, <<"t1", "s2">>, <<"t2", "s1">>}

\* The subscription whose history is recorded.
watch == <<"t1", "s1">>

\* ------------------------------------------------------- transport status
StatusOK                  == "OK"
StatusCreated             == "CREATED"
StatusNoContent           == "NO_CONTENT"
StatusNotFound            == "NOT_FOUND"
StatusInternalServerError == "INTERNAL_SERVER_ERROR"

\* ------------------------------------------------------------ request body
\* r.Body of a POST /:topic_name request: absent, not JSON, or a JSON Message.
NilBody       == [kind |-> "nil",       content |-> "", published |-> 0]
MalformedBody == [kind |-> "malformed", content |-> "", published |-> 0]
JsonBodies    == [kind : {"json"}, content : Contents, published : CallerTimes]
Bodies        == {NilBody, MalformedBody} \cup JsonBodies

\* The zero Message ("var msg Message").
ZeroMessage == [content |-> "", published |-> 0]

\* unmarshalBody: a nil body leaves the object untouched and is no error, a
\* body that is not JSON is an error, a JSON body fills the fields it names.
unmarshalBody(body, object) ==
    IF body.kind = "nil" THEN [err |-> FALSE, object |-> object]
    ELSE IF body.kind = "malformed" THEN [err |-> TRUE, object |-> object]
    ELSE [err |-> FALSE,
          object |-> [content |-> body.content, published |-> body.published]]

\* ------------------------------------------------------------- map helpers
EmptyMap == [x \in {} |-> {}]

MapPut(f, k, v) == [x \in (DOMAIN f) \cup {k} |-> IF x = k THEN v ELSE f[x]]

MapDelete(f, k) == [x \in (DOMAIN f) \ {k} |-> f[x]]

\* "_, ok := ps.topics[topic]" and "_, ok := ps.topics[topic][subscriber]"
HasTopic(store, topic) == topic \in DOMAIN store

HasSubscriber(store, topic, subscriber) ==
    HasTopic(store, topic) /\ subscriber \in DOMAIN store[topic]

\* The buffer of (topic, subscriber), <<>> when there is no such subscription.
Buffer(store, topic, subscriber) ==
    IF HasSubscriber(store, topic, subscriber) THEN store[topic][subscriber]
    ELSE <<>>

\* The subscriptions a store holds, as (topic, subscriber) pairs.
SubscriptionsOf(store) ==
    {k \in Keys : HasSubscriber(store, k[1], k[2])}

SeqIds(s) == {s[i].id : i \in DOMAIN s}

\* --------------------------------------------------------------- handlers
\* Variant: the clock is used only when the request gave no time.
StampKeepsCaller(msg, now, id) ==
    [content |-> msg.content,
     published |-> IF msg.published # 0 THEN msg.published ELSE now,
     id |-> id]

\* A buffered Message.  content and published are the struct's fields; id is
\* the number of the PublishMessage call that made it (history only).
Stamp(msg, now, id) == [content |-> msg.content, published |-> now, id |-> id]

\* Variant: the loop stops after the first subscriber.
fanOutFirstOnly(subs, msg) ==
    LET first == CHOOSE s \in DOMAIN subs : TRUE IN
    [s \in DOMAIN subs |-> IF s = first THEN Append(subs[s], msg) ELSE subs[s]]

\* Variant: the message is put in front of the queue.
fanOutPrepend(subs, msg) == [s \in DOMAIN subs |-> <<msg>> \o subs[s]]

\* "for subscriber := range ps.topics[topic] { ... append(..., msg) }"
fanOut(subs, msg) == [s \in DOMAIN subs |-> Append(subs[s], msg)]

\* Variant: the check for a topic without subscribers is missing; ranging
\* over the absent entry appends nothing and the handler answers Created.
PublishMessageNoCheck(store, topic, body, now, id) ==
    LET u == unmarshalBody(body, ZeroMessage) IN
    IF u.err
    THEN [topics |-> store, status |-> StatusInternalServerError,
          msgs |-> <<>>, clock |-> 0]
    ELSE LET msg == Stamp(u.object, now, id) IN
         [topics |-> IF HasTopic(store, topic)
                     THEN MapPut(store, topic, fanOut(store[topic], msg))
                     ELSE store,
          status |-> StatusCreated, msgs |-> <<msg>>, clock |-> now]

\* PublishMessage, POST /:topic_name.  now is what time.Now() gives when the
\* handler gets to read it; clock is the reading it took (0: none taken).
PublishMessageResult(store, topic, body, now, id) ==
    IF ~HasTopic(store, topic)
    THEN [topics |-> store, status |-> StatusNoContent, msgs |-> <<>>,
          clock |-> 0]
    ELSE LET u == unmarshalBody(body, ZeroMessage) IN
         IF u.err
         THEN [topics |-> store, status |-> StatusInternalServerError,
               msgs |-> <<>>, clock |-> 0]
         ELSE LET msg == Stamp(u.object, now, id) IN
              [topics |-> MapPut(store, topic, fanOut(store[topic], msg)),
               status |-> StatusCreated, msgs |-> <<msg>>, clock |-> now]

\* Variant: a new subscriber starts with the backlog of a subscriber the
\* topic already has.
SubscribeReplay(store, topic, subscriber) ==
    IF HasSubscriber(store, topic, subscriber)
    THEN [topics |-> store, status |-> StatusCreated, msgs |-> <<>>]
    ELSE LET subs == IF HasTopic(store, topic) THEN store[topic] ELSE EmptyMap
             backlog == IF DOMAIN subs = {} THEN <<>>
                        ELSE subs[CHOOSE s \in DOMAIN subs : TRUE]
         IN [topics |-> MapPut(store, topic, MapPut(subs, subscriber, backlog)),
             status |-> StatusCreated, msgs |-> <<>>]

\* Variant: the "already subscribed" check is missing, the queue is always
\* replaced by an empty one.
SubscribeAlwaysReset(store, topic, subscriber) ==
    LET subs == IF HasTopic(store, topic) THEN store[topic] ELSE EmptyMap IN
    [topics |-> MapPut(store, topic, MapPut(subs, subscriber, <<>>)),
     status |-> StatusCreated, msgs |-> <<>>]

\* Subscribe, POST /:topic_name/:subscriber_name.
SubscribeResult(store, topic, subscriber) ==
    LET withTopic == IF ~HasTopic(store, topic)
                     THEN MapPut(store, topic, EmptyMap)
                     ELSE store
        withSub   == IF ~HasSubscriber(withTopic, topic, subscriber)
                     THEN MapPut(withTopic, topic,
                                 MapPut(withTopic[topic], subscriber, <<>>))
                     ELSE withTopic
    IN [topics |-> withSub, status |-> StatusCreated, msgs |-> <<>>]

\* Variant: the whole topic entry is deleted.
dropTopic(store, topic, subscriber) == MapDelete(store, topic)

\* Variant: a topic left without subscribers is not removed.
dropSubscriberNoGC(store, topic, subscriber) ==
    MapPut(store, topic, MapDelete(store[topic], subscriber))

\* Variant: the subscriber's entry is not deleted.
dropSubscriberKeeps(store, topic, subscriber) == store

\* "delete(ps.topics[topic], subscriber)" followed by the removal of a topic
\* that has no subscriber left.
dropSubscriber(store, topic, subscriber) ==
    LET rest == MapDelete(store[topic], subscriber) IN
    IF Cardinality(DOMAIN rest) = 0
    THEN MapDelete(store, topic)
    ELSE MapPut(store, topic, rest)

\* Unsubscribe, DELETE /:topic_name/:subscriber_name.
UnsubscribeResult(store, topic, subscriber) ==
    IF ~HasTopic(store, topic)
    THEN [topics |-> store, status |-> StatusNotFound, msgs |-> <<>>]
    ELSE IF ~HasSubscriber(store, topic, subscriber)
    THEN [topics |-> store, status |-> StatusNotFound, msgs |-> <<>>]
    ELSE [topics |-> dropSubscriber(store, topic, subscriber),
          status |-> StatusNoContent, msgs |-> <<>>]

\* json.Marshal of a []Message: the wire form has the two struct fields under
\* their JSON names.  A string and a time.Now() reading always encode.
jsonMarshal(msgs) ==
    [err  |-> FALSE,
     body |-> [i \in DOMAIN msgs |->
                  [message |-> msgs[i].content, published |-> msgs[i].published]]]

\* Variant: the queue is not emptied.
emptyQueueKeeps(store, topic, subscriber) == store

\* "ps.topics[topic][subscriber] = make([]Message, 0)"
emptyQueue(store, topic, subscriber) ==
    MapPut(store, topic, MapPut(store[topic], subscriber, <<>>))

\* Variant: the check for a missing subscriber is missing; the absent entry
\* reads as an empty queue.
GetMessagesNoSubscriberCheck(store, topic, subscriber, writeErr) ==
    IF ~HasTopic(store, topic)
    THEN [topics |-> store, status |-> StatusNotFound, msgs |-> <<>>,
          fault |-> FALSE]
    ELSE IF Len(Buffer(store, topic, subscriber)) = 0
    THEN [topics |-> store, status |-> StatusNoContent, msgs |-> <<>>,
          fault |-> FALSE]
    ELSE IF writeErr
    THEN [topics |-> store, status |-> StatusInternalServerError,
          msgs |-> <<>>, fault |-> TRUE]
    ELSE [topics |-> emptyQueue(store, topic, subscriber),
          status |-> StatusOK, msgs |-> store[topic][subscriber],
          fault |-> FALSE]

\* GetMessages, GET /:topic_name/:subscriber_name.  writeErr: w.Write fails
\* when the handler gets to call it; fault: a response failure was met.
\* msgs is what the caller got with StatusOK.
GetMessagesResult(store, topic, subscriber, writeErr) ==
    IF ~HasTopic(store, topic)
    THEN [topics |-> store, status |-> StatusNotFound, msgs |-> <<>>,
          fault |-> FALSE]
    ELSE IF ~HasSubscriber(store, topic, subscriber)
    THEN [topics |-> store, status |-> StatusNotFound, msgs |-> <<>>,
          fault |-> FALSE]
    ELSE IF Len(store[topic][subscriber]) = 0
    THEN [topics |-> store, status |-> StatusNoContent, msgs |-> <<>>,
          fault |-> FALSE]
    ELSE LET m == jsonMarshal(store[topic][subscriber]) IN
         IF m.err
         THEN [topics |-> store, status |-> StatusInternalServerError,
               msgs |-> <<>>, fault |-> TRUE]
         ELSE IF writeErr
         THEN [topics |-> store, status |-> StatusInternalServerError,
               msgs |-> <<>>, fault |-> TRUE]
         ELSE [topics |-> emptyQueue(store, topic, subscriber),
               status |-> StatusOK, msgs |-> store[topic][subscriber],
               fault |-> FALSE]

\* ------------------------------------------------------ concurrent callers
\* The goroutines net/http runs the handlers on, one per request in flight.
Procs  == {"p1", "p2", "p3"}
NoProc == "none"

\* What the concurrent callers ask for: every operation on the two
\* subscriptions of one topic, PublishMessage with a body that parses and
\* with one that does not.
ConcTopic  == "t1"
ConcClock  == {1}
ConcBodies == {[kind |-> "json", content |-> "a", published |-> 0],
               MalformedBody}

\* A request in flight with the locals of its handler: msg (the stamped
\* Message), todo (the subscribers the range loop has still to visit), out
\* (the messages json.Marshal encoded), status (the answer).  id (the number
\* of the message, given when it is stamped), target (the
\* subscribers the range loop set out to visit), must and mustNot (the
\* subscribers the call has to reach and must not reach) are history.
Req(op, topic, subscriber, body, id, must, mustNot) ==
    [op |-> op, topic |-> topic, subscriber |-> subscriber, body |-> body,
     id |-> id, msg |-> Stamp(ZeroMessage, 0, 0), todo |-> {}, target |-> {},
     out |-> <<>>, status |-> "", must |-> must, mustNot |-> mustNot]

NoReq == Req("", "", "", NilBody, 0, {}, {})

\* Variant: Lock() does not wait for the holder of the mutex.
UnlockedAlways(holder) == TRUE

\* sync.Mutex: Lock() returns only when nobody holds the mutex.
Unlocked(holder) == holder = NoProc

\* Variant: PublishMessage runs without taking the mutex.
TakesLockExceptPublish(op) == op # "PublishMessage"

\* "ps.Lock(); defer ps.Unlock()" is the first statement of every handler.
TakesLock(op) == TRUE

\* ------------------------------------------------------------ NATS variant
\* The variant of pubsub.go that hands publishing to a NATS connection and
\* keeps the queues in the package's map subscriptions.
MaxReg == 2                      \* number of ps.conn.Subscribe calls explored

NatsProcs == {"p1", "p2"}

\* The (topic, subscriber) pairs the NATS variant is called with: two pairs
\* that differ only in where the '.' falls, and a second subscriber on one
\* of the topics.
NatsTopics == {"a", "a.b"}
NatsPairs  == {<<"a.b", "c">>, <<"a", "b.c">>, <<"a", "c">>}

\* "mapKey := topic + "." + subscriber"
mapKey(topic, subscriber) == topic \o "." \o subscriber

\* The process ends when a goroutine dereferences a nil *subscription or
\* unlocks a sync.Mutex that is not locked.
NoPanic     == ""
NilEntry    == "nil pointer dereference"
UnlockedMu  == "unlock of unlocked mutex"
MapRace     == "concurrent map read and map write"

\* A *subscription: the struct's sub and msgs, and its embedded Mutex; pair
\* (history) is the request the entry was made for.
Entry(sub, pair) == [sub |-> sub, msgs |-> <<>>, locked |-> FALSE, pair |-> pair]

\* A broker subscription: its subject and the mapKey its callback closes
\* over; the messages the broker has still to hand to the callback; where
\* the callback is (at) with the message it was called with (cur).
Handle(subject, key) ==
    [subject |-> subject, key |-> key, valid |-> TRUE, pending |-> <<>>,
     at |-> "idle", cur |-> Stamp(ZeroMessage, 0, 0)]

\* ps.conn.Subscribe(topic, func(m *Message) {...}): a new subscription, the
\* next in the sequence.
connSubscribe(c, topic, key) == Append(c, Handle(topic, key))

\* ps.conn.Publish(topic, &msg): the broker queues the message for every
\* subscription it has on the subject.
connPublish(c, topic, msg) ==
    [h \in DOMAIN c |->
        IF c[h].valid /\ c[h].subject = topic
        THEN [c[h] EXCEPT !.pending = Append(@, msg)]
        ELSE c[h]]

\* sub.Unsubscribe(): the subscription gets no further message; a callback
\* that is running goes on.
subUnsubscribe(c, h) == [c EXCEPT ![h].valid = FALSE, ![h].pending = <<>>]

\* The three statements of the callback.  Each looks mapKey up in
\* subscriptions again; a missing key gives a nil *subscription.
callbackLock(subs, key) ==
    IF key \notin DOMAIN subs
    THEN [subs |-> subs, panic |-> NilEntry]
    ELSE [subs |-> [subs EXCEPT ![key].locked = TRUE], panic |-> NoPanic]

callbackAppend(subs, key, m) ==
    IF key \notin DOMAIN subs
    THEN [subs |-> subs, panic |-> NilEntry]
    ELSE [subs |-> [subs EXCEPT ![key].msgs = Append(@, m)], panic |-> NoPanic]

callbackUnlock(subs, key) ==
    IF key \notin DOMAIN subs
    THEN [subs |-> subs, panic |-> NilEntry]
    ELSE IF ~subs[key].locked
    THEN [subs |-> subs, panic |-> UnlockedMu]
    ELSE [subs |-> [subs EXCEPT ![key].locked = FALSE], panic |-> NoPanic]

\* Some callback is at a statement that reads the subscriptions map: it has
\* a message to start on, or is past its Lock().  The callback takes no
\* mutex, so that read can fall together with a write of a handler.
callbackReads(c) ==
    \E h \in DOMAIN c : c[h].at # "idle" \/ c[h].pending # <<>>

\* What becomes of the process when a handler changes the map from subs to
\* written: the runtime may detect a read that falls together with the write
\* and end the process, or not.
mapWrite(subs, written, c, detected) ==
    IF detected /\ written # subs /\ callbackReads(c) THEN MapRace ELSE NoPanic

\* A request of the NATS variant in flight: sub is what ps.conn.Subscribe
\* returned, out what json.Marshal encoded.
NatsReq(op, topic, subscriber, sub) ==
    [op |-> op, topic |-> topic, subscriber |-> subscriber, sub |-> sub,
     out |-> <<>>]

NoNatsReq == NatsReq("", "", "", 0)

\* A call that has returned: its answer, the messages it returned, and
\* (history) the pair of the entry it found, made, removed or emptied.
NatsCall(op, topic, subscriber, status, msgs, entry) ==
    [op |-> op, topic |-> topic, subscriber |-> subscriber,
     status |-> status, msgs |-> msgs, entry |-> entry]

NoNatsCall == NatsCall("", "", "", "", <<>>, <<>>)

\* ------------------------------------------------------------------ state
VARIABLES
    topics,     \* PubSub.topics
    nPub,       \* history: number of PublishMessage calls so far
    pubTo,      \* history: ids of the PublishMessage calls on watch's topic
    due,        \* history: ids published while watch was subscribed
    polled,     \* history: ids GetMessages returned to watch, in order
    discarded,  \* history: ids buffered for watch when Unsubscribe removed it
    preSub,     \* history: ids published before some Subscribe call of watch
    preCreate,  \* history: ids published before a creating Subscribe of watch
    lastOp,     \* history: the last handler call, its result, the store before
    mu,         \* the embedded sync.Mutex: the caller holding it, or NoProc
    pc,         \* where each concurrent caller is in its handler
    req,        \* the request and the handler's locals of each concurrent caller
    subscriptions, \* NATS variant: the package's map mapKey -> *subscription
    mutex,      \* NATS variant: the caller holding the package's mutex
    conn,       \* NATS variant: the broker subscriptions made on ps.conn
    npc,        \* NATS variant: where each caller is in its handler
    nreq,       \* NATS variant: the request and locals of each caller
    panicked,   \* NATS variant: the run-time failure that ended the process
    nlast       \* history: the last NATS-variant handler call that returned

vars == <<topics, nPub, pubTo, due, polled, discarded, preSub, preCreate,
          lastOp, mu, pc, req, subscriptions, mutex, conn, npc, nreq,
          panicked, nlast>>

\* The state of the NATS variant.
natsVars == <<subscriptions, mutex, conn, npc, nreq, panicked, nlast>>

\* The state of the callers that run their handlers step by step.
concVars == <<mu, pc, req>>

Op(op, topic, subscriber, body, now, fault, r, pre) ==
    [op |-> op, topic |-> topic, subscriber |-> subscriber, body |-> body,
     now |-> now, fault |-> fault, status |-> r.status, msgs |-> r.msgs,
     pre |-> pre]

Watched(topic, subscriber) == watch = <<topic, subscriber>>

\* What lastOp holds after a call that does not concern watch.
Unwatched ==
    Op("other", "", "", NilBody, 0, FALSE,
       [status |-> StatusOK, msgs |-> <<>>], EmptyMap)

\* The ids of a sequence of messages, in order.
IdSeq(s) == [i \in DOMAIN s |-> s[i].id]

\* New(): an empty topics map.
Init ==
    /\ topics = EmptyMap
    /\ nPub = 0
    /\ pubTo = {}
    /\ due = {}
    /\ polled = <<>>
    /\ discarded = {}
    /\ preSub = {}
    /\ preCreate = {}
    /\ lastOp = Unwatched
    /\ mu = NoProc
    /\ pc = [p \in Procs |-> "idle"]
    /\ req = [p \in Procs |-> NoReq]
    /\ subscriptions = EmptyMap
    /\ mutex = NoProc
    /\ conn = <<>>
    /\ npc = [p \in NatsProcs |-> "idle"]
    /\ nreq = [p \in NatsProcs |-> NoNatsReq]
    /\ panicked = NoPanic
    /\ nlast = NoNatsCall

PublishMessage(topic, body, now) ==
    /\ nPub < MaxPub
    /\ LET id == nPub + 1
           r  == PublishMessageResult(topics, topic, body, now, id)
       IN /\ topics' = r.topics
          /\ nPub' = id
          /\ pubTo' = IF topic = watch[1] THEN pubTo \cup {id} ELSE pubTo
          /\ due' = IF /\ topic = watch[1]
                       /\ HasSubscriber(topics, watch[1], watch[2])
                       /\ body.kind # "malformed"
                    THEN due \cup {id} ELSE due
          /\ lastOp' = IF topic = watch[1]
                       THEN Op("PublishMessage", topic, "", body, r.clock, FALSE, r,
                               topics)
                       ELSE Unwatched
    /\ UNCHANGED <<polled, discarded, preSub, preCreate>>
    /\ UNCHANGED <<concVars, natsVars>>

Subscribe(topic, subscriber) ==
    LET r == SubscribeResult(topics, topic, subscriber) IN
    /\ topics' = r.topics
    /\ preSub' = IF Watched(topic, subscriber) THEN pubTo ELSE preSub
    /\ preCreate' = IF /\ Watched(topic, subscriber)
                       /\ ~HasSubscriber(topics, topic, subscriber)
                    THEN pubTo ELSE preCreate
    /\ lastOp' = IF Watched(topic, subscriber)
                 THEN Op("Subscribe", topic, subscriber, NilBody, 0, FALSE, r,
                         topics)
                 ELSE Unwatched
    /\ UNCHANGED <<nPub, pubTo, due, polled, discarded>>
    /\ UNCHANGED <<concVars, natsVars>>

Unsubscribe(topic, subscriber) ==
    LET r == UnsubscribeResult(topics, topic, subscriber) IN
    /\ topics' = r.topics
    /\ discarded' = IF /\ Watched(topic, subscriber)
                       /\ r.status = StatusNoContent
                    THEN discarded \cup SeqIds(Buffer(topics, topic, subscriber))
                    ELSE discarded
    /\ lastOp' = IF Watched(topic, subscriber)
                 THEN Op("Unsubscribe", topic, subscriber, NilBody, 0, FALSE, r,
                         topics)
                 ELSE Unwatched
    /\ UNCHANGED <<nPub, pubTo, due, polled, preSub, preCreate>>
    /\ UNCHANGED <<concVars, natsVars>>

GetMessages(topic, subscriber, writeErr) ==
    LET r == GetMessagesResult(topics, topic, subscriber, writeErr) IN
    /\ topics' = r.topics
    /\ polled' = IF Watched(topic, subscriber)
                 THEN polled \o IdSeq(r.msgs) ELSE polled
    /\ lastOp' = IF Watched(topic, subscriber)
                 THEN Op("GetMessages", topic, subscriber, NilBody, 0, r.fault, r,
                         topics)
                 ELSE Unwatched
    /\ UNCHANGED <<nPub, pubTo, due, discarded, preSub, preCreate>>
    /\ UNCHANGED <<concVars, natsVars>>

Next ==
    \/ \E t \in Topics, b \in Bodies, now \in Clock : PublishMessage(t, b, now)
    \/ \E k \in SubscribeKeys : Subscribe(k[1], k[2])
    \/ \E t \in Topics, s \in Subscribers : Unsubscribe(t, s)
    \/ \E t \in Topics, s \in Subscribers, e \in BOOLEAN : GetMessages(t, s, e)

Spec == Init /\ [][Next]_vars

\* ------------------------------------------- the handlers, step by step
\* The same handlers run by concurrent callers.  A caller is at "lock" from
\* the moment its handler is called until ps.Lock() returns, then at the
\* statements of the handler body, then at "unlock" (the deferred
\* ps.Unlock()), and back at "idle" when the handler has returned.
Calling(op, subscriber) ==
    \E q \in Procs : /\ pc[q] # "idle"
                     /\ req[q].op = op
                     /\ req[q].subscriber = subscriber

\* The PublishMessage calls in flight that have not numbered a message yet.
Publishing ==
    Cardinality({q \in Procs : /\ pc[q] \in {"lock", "body"}
                               /\ req[q].op = "PublishMessage"})

SetReq(p, r) == [req EXCEPT ![p] = r]

Goto(p, label) == [pc EXCEPT ![p] = label]

\* "ps.topics[topic][subscriber] = append(ps.topics[topic][subscriber], msg)"
\* for one subscriber of the range loop.  Under the mutex the topic's map is
\* there; a write to a missing (nil) map stores nothing.
appendTo(store, topic, subscriber, msg) ==
    IF HasTopic(store, topic)
    THEN MapPut(store, topic,
                MapPut(store[topic], subscriber,
                       Append(Buffer(store, topic, subscriber), msg)))
    ELSE store

\* The router hands a request to its handler.  must and mustNot of a
\* PublishMessage call: the subscribers subscribed, resp. not subscribed, when
\* the call begins, less those a concurrent Unsubscribe, resp. Subscribe, is
\* called for before the call has looked at the topic.
Call(p, op, subscriber, body) ==
    /\ pc[p] = "idle"
    /\ op = "PublishMessage" => nPub + Publishing < MaxPub
    /\ LET must    == {x \in Subscribers :
                          /\ HasSubscriber(topics, ConcTopic, x)
                          /\ ~Calling("Unsubscribe", x)}
           mustNot == {x \in Subscribers :
                          /\ ~HasSubscriber(topics, ConcTopic, x)
                          /\ ~Calling("Subscribe", x)}
           new == IF op = "PublishMessage"
                  THEN Req(op, ConcTopic, "", body, 0, must, mustNot)
                  ELSE Req(op, ConcTopic, subscriber, NilBody, 0, {}, {})
           seen(q) ==
               IF pc[q] \in {"lock", "body"} /\ req[q].op = "PublishMessage"
               THEN [req[q] EXCEPT
                        !.must = IF op = "Unsubscribe"
                                 THEN @ \ {subscriber} ELSE @,
                        !.mustNot = IF op = "Subscribe"
                                    THEN @ \ {subscriber} ELSE @]
               ELSE req[q]
       IN req' = [q \in Procs |-> IF q = p THEN new ELSE seen(q)]
    /\ pc' = Goto(p, "lock")
    /\ UNCHANGED <<topics, nPub, pubTo, due, polled, discarded, preSub,
                   preCreate, lastOp, mu>>
    /\ UNCHANGED natsVars

\* ps.Lock()
Lock(p) ==
    /\ pc[p] = "lock"
    /\ IF TakesLock(req[p].op)
       THEN Unlocked(mu) /\ mu' = p
       ELSE mu' = mu
    /\ pc' = Goto(p, "body")
    /\ UNCHANGED <<topics, nPub, pubTo, due, polled, discarded, preSub,
                   preCreate, lastOp, req>>
    /\ UNCHANGED natsVars

\* PublishMessage up to the range loop: the check for subscribers, the
\* decoding of the body, the reading of the clock.
PublishMessageBody(p, now) ==
    /\ pc[p] = "body"
    /\ req[p].op = "PublishMessage"
    /\ LET r == req[p]
           u == unmarshalBody(r.body, ZeroMessage)
       IN IF ~HasTopic(topics, r.topic)
          THEN /\ req' = SetReq(p, [r EXCEPT !.status = StatusNoContent])
               /\ pc' = Goto(p, "unlock")
               /\ nPub' = nPub
          ELSE IF u.err
          THEN /\ req' = SetReq(p, [r EXCEPT
                                       !.status = StatusInternalServerError])
               /\ pc' = Goto(p, "unlock")
               /\ nPub' = nPub
          ELSE /\ req' = SetReq(p, [r EXCEPT
                                       !.id = nPub + 1,
                                       !.msg = Stamp(u.object, now, nPub + 1),
                                       !.todo = DOMAIN topics[r.topic],
                                       !.target = DOMAIN topics[r.topic]])
               /\ pc' = Goto(p, "range")
               /\ nPub' = nPub + 1
    /\ UNCHANGED <<topics, pubTo, due, polled, discarded, preSub, preCreate,
                   lastOp, mu>>
    /\ UNCHANGED natsVars

\* One turn of "for subscriber := range ps.topics[topic]", in the order the
\* map gives, or the end of the loop and the answer.
PublishMessageRange(p) ==
    /\ pc[p] = "range"
    /\ LET r == req[p] IN
       IF r.todo = {}
       THEN /\ req' = SetReq(p, [r EXCEPT !.status = StatusCreated])
            /\ pc' = Goto(p, "unlock")
            /\ UNCHANGED <<topics, due>>
       ELSE \E s \in r.todo :
               /\ topics' = appendTo(topics, r.topic, s, r.msg)
               /\ due' = IF Watched(r.topic, s) THEN due \cup {r.id} ELSE due
               /\ req' = SetReq(p, [r EXCEPT !.todo = @ \ {s}])
               /\ pc' = pc
    /\ UNCHANGED <<nPub, pubTo, polled, discarded, preSub, preCreate, lastOp,
                   mu>>
    /\ UNCHANGED natsVars

SubscribeBody(p) ==
    /\ pc[p] = "body"
    /\ req[p].op = "Subscribe"
    /\ LET r == SubscribeResult(topics, req[p].topic, req[p].subscriber) IN
       /\ topics' = r.topics
       /\ req' = SetReq(p, [req[p] EXCEPT !.status = r.status])
    /\ pc' = Goto(p, "unlock")
    /\ UNCHANGED <<nPub, pubTo, due, polled, discarded, preSub, preCreate,
                   lastOp, mu>>
    /\ UNCHANGED natsVars

UnsubscribeBody(p) ==
    /\ pc[p] = "body"
    /\ req[p].op = "Unsubscribe"
    /\ LET r == UnsubscribeResult(topics, req[p].topic, req[p].subscriber) IN
       /\ topics' = r.topics
       /\ discarded' =
             IF /\ Watched(req[p].topic, req[p].subscriber)
                /\ r.status = StatusNoContent
             THEN discarded \cup SeqIds(Buffer(topics, watch[1], watch[2]))
             ELSE discarded
       /\ req' = SetReq(p, [req[p] EXCEPT !.status = r.status])
    /\ pc' = Goto(p, "unlock")
    /\ UNCHANGED <<nPub, pubTo, due, polled, preSub, preCreate, lastOp, mu>>
    /\ UNCHANGED natsVars

\* GetMessages up to json.Marshal: the three early answers, or the encoding
\* of the queue as it is now.
GetMessagesBody(p) ==
    /\ pc[p] = "body"
    /\ req[p].op = "GetMessages"
    /\ LET r == req[p]
           m == jsonMarshal(Buffer(topics, r.topic, r.subscriber))
       IN IF ~HasTopic(topics, r.topic)
          THEN /\ req' = SetReq(p, [r EXCEPT !.status = StatusNotFound])
               /\ pc' = Goto(p, "unlock")
          ELSE IF ~HasSubscriber(topics, r.topic, r.subscriber)
          THEN /\ req' = SetReq(p, [r EXCEPT !.status = StatusNotFound])
               /\ pc' = Goto(p, "unlock")
          ELSE IF Len(topics[r.topic][r.subscriber]) = 0
          THEN /\ req' = SetReq(p, [r EXCEPT !.status = StatusNoContent])
               /\ pc' = Goto(p, "unlock")
          ELSE IF m.err
          THEN /\ req' = SetReq(p, [r EXCEPT
                                       !.status = StatusInternalServerError])
               /\ pc' = Goto(p, "unlock")
          ELSE /\ req' = SetReq(p, [r EXCEPT
                                       !.out = topics[r.topic][r.subscriber]])
               /\ pc' = Goto(p, "write")
    /\ UNCHANGED <<topics, nPub, pubTo, due, polled, discarded, preSub,
                   preCreate, lastOp, mu>>
    /\ UNCHANGED natsVars

\* "_, err = w.Write(body)"
GetMessagesWrite(p, writeErr) ==
    /\ pc[p] = "write"
    /\ IF writeErr
       THEN /\ req' = SetReq(p, [req[p] EXCEPT
                                    !.out = <<>>,
                                    !.status = StatusInternalServerError])
            /\ pc' = Goto(p, "unlock")
       ELSE /\ req' = req
            /\ pc' = Goto(p, "empty")
    /\ UNCHANGED <<topics, nPub, pubTo, due, polled, discarded, preSub,
                   preCreate, lastOp, mu>>
    /\ UNCHANGED natsVars

\* The emptying of the queue and the answer OK.
GetMessagesEmpty(p) ==
    /\ pc[p] = "empty"
    /\ LET r == req[p] IN
       /\ topics' = IF HasTopic(topics, r.topic)
                    THEN emptyQueue(topics, r.topic, r.subscriber)
                    ELSE topics
       /\ polled' = IF Watched(r.topic, r.subscriber)
                    THEN polled \o IdSeq(r.out) ELSE polled
       /\ req' = SetReq(p, [r EXCEPT !.status = StatusOK])
    /\ pc' = Goto(p, "unlock")
    /\ UNCHANGED <<nPub, pubTo, due, discarded, preSub, preCreate, lastOp, mu>>
    /\ UNCHANGED natsVars

\* The deferred ps.Unlock() and the return of the handler.
Unlock(p) ==
    /\ pc[p] = "unlock"
    /\ mu' = IF TakesLock(req[p].op) THEN NoProc ELSE mu
    /\ pc' = Goto(p, "idle")
    /\ req' = SetReq(p, NoReq)
    /\ UNCHANGED <<topics, nPub, pubTo, due, polled, discarded, preSub,
                   preCreate, lastOp>>
    /\ UNCHANGED natsVars

Operations == {"PublishMessage", "Subscribe", "Unsubscribe", "GetMessages"}

NextConc ==
    \/ \E p \in Procs, op \in Operations, s \in Subscribers, b \in ConcBodies :
          Call(p, op, s, b)
    \/ \E p \in Procs : Lock(p)
    \/ \E p \in Procs, now \in ConcClock : PublishMessageBody(p, now)
    \/ \E p \in Procs : PublishMessageRange(p)
    \/ \E p \in Procs : SubscribeBody(p)
    \/ \E p \in Procs : UnsubscribeBody(p)
    \/ \E p \in Procs : GetMessagesBody(p)
    \/ \E p \in Procs, e \in BOOLEAN : GetMessagesWrite(p, e)
    \/ \E p \in Procs : GetMessagesEmpty(p)
    \/ \E p \in Procs : Unlock(p)

SpecConc == Init /\ [][NextConc]_vars

\* ------------------------------------------------- NATS variant: handlers
\* What the NATS variant leaves alone: the in-memory store with its
\* histories, and the callers of the in-memory handlers.
memVars == <<topics, pubTo, due, polled, discarded, preSub, preCreate, lastOp>>

\* PublishMessage of the NATS variant.  It takes no lock: it decodes the
\* body, stamps the message and hands it to the connection.
natsPublishMessage(c, topic, body, now, id, connErr) ==
    LET u == unmarshalBody(body, ZeroMessage) IN
    IF u.err
    THEN [conn |-> c, status |-> StatusInternalServerError]
    ELSE IF connErr
    THEN [conn |-> c, status |-> StatusInternalServerError]
    ELSE [conn |-> connPublish(c, topic, Stamp(u.object, now, id)),
          status |-> StatusCreated]

\* The part of Subscribe under mutex.Lock(): the entry is made only when the
\* key has none.
natsInsert(subs, key, sub, pair) ==
    IF key \notin DOMAIN subs THEN MapPut(subs, key, Entry(sub, pair)) ELSE subs

\* Unsubscribe of the NATS variant, under mutex.Lock().
natsUnsubscribe(subs, c, key, connErr) ==
    IF key \in DOMAIN subs
    THEN IF connErr \/ ~c[subs[key].sub].valid
         THEN [subscriptions |-> subs, conn |-> c,
               status |-> StatusInternalServerError, entry |-> subs[key].pair]
         ELSE [subscriptions |-> MapDelete(subs, key),
               conn |-> subUnsubscribe(c, subs[key].sub),
               status |-> StatusNoContent, entry |-> subs[key].pair]
    ELSE [subscriptions |-> subs, conn |-> c, status |-> StatusNoContent,
          entry |-> <<>>]

NatsPublishMessage(topic, body, now, connErr) ==
    /\ panicked = NoPanic
    /\ nPub < MaxPub
    /\ conn' = natsPublishMessage(conn, topic, body, now, nPub + 1, connErr).conn
    /\ nPub' = nPub + 1
    /\ UNCHANGED <<subscriptions, mutex, npc, nreq, panicked, nlast>>
    /\ UNCHANGED <<memVars, concVars>>

\* Subscribe up to mutex.Lock(): the call of ps.conn.Subscribe, after which
\* the handler returns at once when the call failed.
NatsSubscribeRegister(p, topic, subscriber, connErr) ==
    /\ panicked = NoPanic
    /\ npc[p] = "idle"
    /\ Len(conn) < MaxReg
    /\ IF connErr
       THEN UNCHANGED <<conn, npc, nreq>>
       ELSE /\ conn' = connSubscribe(conn, topic, mapKey(topic, subscriber))
            /\ nreq' = [nreq EXCEPT ![p] = NatsReq("Subscribe", topic,
                                                   subscriber, Len(conn) + 1)]
            /\ npc' = [npc EXCEPT ![p] = "insert"]
    /\ UNCHANGED <<subscriptions, mutex, panicked, nlast, nPub>>
    /\ UNCHANGED <<memVars, concVars>>

\* The rest of Subscribe, from mutex.Lock() to the return.
NatsSubscribeInsert(p, detected) ==
    /\ panicked = NoPanic
    /\ npc[p] = "insert"
    /\ mutex = NoProc
    /\ LET r == nreq[p] IN
       subscriptions' = natsInsert(subscriptions, mapKey(r.topic, r.subscriber),
                                   r.sub, <<r.topic, r.subscriber>>)
    /\ panicked' = mapWrite(subscriptions, subscriptions', conn, detected)
    /\ npc' = [npc EXCEPT ![p] = "idle"]
    /\ nreq' = [nreq EXCEPT ![p] = NoNatsReq]
    /\ UNCHANGED <<mutex, conn, nlast, nPub>>
    /\ UNCHANGED <<memVars, concVars>>

NatsUnsubscribe(topic, subscriber, connErr, detected) ==
    /\ panicked = NoPanic
    /\ mutex = NoProc
    /\ LET r == natsUnsubscribe(subscriptions, conn, mapKey(topic, subscriber),
                                connErr)
       IN /\ subscriptions' = r.subscriptions
          /\ conn' = r.conn
          /\ panicked' = mapWrite(subscriptions, r.subscriptions, r.conn,
                                  detected)
    /\ UNCHANGED <<mutex, npc, nreq, nlast, nPub>>
    /\ UNCHANGED <<memVars, concVars>>

\* GetMessages from mutex.Lock() to the lookup of the entry: NotFound and the
\* deferred mutex.Unlock(), or on to the entry's Lock() with the mutex held.
NatsGetMessagesLookup(p, topic, subscriber) ==
    /\ panicked = NoPanic
    /\ npc[p] = "idle"
    /\ mutex = NoProc
    /\ IF mapKey(topic, subscriber) \notin DOMAIN subscriptions
       THEN UNCHANGED <<mutex, npc, nreq>>
       ELSE /\ mutex' = p
            /\ npc' = [npc EXCEPT ![p] = "sublock"]
            /\ nreq' = [nreq EXCEPT ![p] = NatsReq("GetMessages", topic,
                                                   subscriber, 0)]
    /\ UNCHANGED <<subscriptions, conn, panicked, nlast, nPub>>
    /\ UNCHANGED <<memVars, concVars>>

\* "subscriptions[mapKey].Lock()", which waits for a callback that holds the
\* entry's Mutex, then NoContent with both deferred unlocks, or json.Marshal.
NatsGetMessagesLockSub(p) ==
    /\ panicked = NoPanic
    /\ npc[p] = "sublock"
    /\ LET r   == nreq[p]
           key == mapKey(r.topic, r.subscriber)
       IN /\ ~subscriptions[key].locked
          /\ IF Len(subscriptions[key].msgs) = 0
             THEN /\ mutex' = NoProc
                  /\ npc' = [npc EXCEPT ![p] = "idle"]
                  /\ nreq' = [nreq EXCEPT ![p] = NoNatsReq]
                  /\ UNCHANGED subscriptions
             ELSE /\ subscriptions' =
                        [subscriptions EXCEPT ![key].locked = TRUE]
                  /\ nreq' = [nreq EXCEPT ![p].out = subscriptions[key].msgs]
                  /\ npc' = [npc EXCEPT ![p] = "drain"]
                  /\ UNCHANGED mutex
    /\ UNCHANGED <<conn, panicked, nlast, nPub>>
    /\ UNCHANGED <<memVars, concVars>>

\* The emptying of the queue, which comes before the encoding error is
\* looked at, w.Write, the answer and the two deferred unlocks.  Unlocking
\* an entry Mutex that a callback has unlocked meanwhile ends the process.
NatsGetMessagesDrain(p, writeErr) ==
    /\ panicked = NoPanic
    /\ npc[p] = "drain"
    /\ LET key == mapKey(nreq[p].topic, nreq[p].subscriber) IN
       IF ~subscriptions[key].locked
       THEN /\ subscriptions' = [subscriptions EXCEPT ![key].msgs = <<>>]
            /\ panicked' = UnlockedMu
            /\ UNCHANGED <<mutex, npc, nreq>>
       ELSE /\ subscriptions' = [subscriptions EXCEPT ![key].msgs = <<>>,
                                                      ![key].locked = FALSE]
            /\ mutex' = NoProc
            /\ npc' = [npc EXCEPT ![p] = "idle"]
            /\ nreq' = [nreq EXCEPT ![p] = NoNatsReq]
            /\ panicked' = panicked
    /\ UNCHANGED <<conn, nlast, nPub>>
    /\ UNCHANGED <<memVars, concVars>>

\* The broker calls the callback of a subscription with its next message;
\* the callback's first statement, "subscriptions[mapKey].Lock()", waits
\* while the entry's Mutex is held.
CallbackLock(h) ==
    /\ panicked = NoPanic
    /\ conn[h].at = "idle"
    /\ conn[h].pending # <<>>
    /\ conn[h].key \in DOMAIN subscriptions =>
          ~subscriptions[conn[h].key].locked
    /\ LET r == callbackLock(subscriptions, conn[h].key) IN
       /\ subscriptions' = r.subs
       /\ panicked' = r.panic
       /\ conn' = [conn EXCEPT ![h].cur = Head(conn[h].pending),
                               ![h].pending = Tail(conn[h].pending),
                               ![h].at = IF r.panic = NoPanic
                                         THEN "append" ELSE "lock"]
    /\ UNCHANGED <<mutex, npc, nreq, nlast, nPub>>
    /\ UNCHANGED <<memVars, concVars>>

\* "subscriptions[mapKey].msgs = append(subscriptions[mapKey].msgs, *m)"
CallbackAppend(h) ==
    /\ panicked = NoPanic
    /\ conn[h].at = "append"
    /\ LET r == callbackAppend(subscriptions, conn[h].key, conn[h].cur) IN
       /\ subscriptions' = r.subs
       /\ panicked' = r.panic
       /\ conn' = IF r.panic = NoPanic
                  THEN [conn EXCEPT ![h].at = "unlock"] ELSE conn
    /\ UNCHANGED <<mutex, npc, nreq, nlast, nPub>>
    /\ UNCHANGED <<memVars, concVars>>

\* "subscriptions[mapKey].Unlock()" and the return of the callback.
CallbackUnlock(h) ==
    /\ panicked = NoPanic
    /\ conn[h].at = "unlock"
    /\ LET r == callbackUnlock(subscriptions, conn[h].key) IN
       /\ subscriptions' = r.subs
       /\ panicked' = r.panic
       /\ conn' = IF r.panic = NoPanic
                  THEN [conn EXCEPT ![h].at = "idle",
                                    ![h].cur = Stamp(ZeroMessage, 0, 0)]
                  ELSE conn
    /\ UNCHANGED <<mutex, npc, nreq, nlast, nPub>>
    /\ UNCHANGED <<memVars, concVars>>

NextNats ==
    \/ \E t \in NatsTopics, b \in ConcBodies, now \in ConcClock, e \in BOOLEAN :
          NatsPublishMessage(t, b, now, e)
    \/ \E p \in NatsProcs, k \in NatsPairs, e \in BOOLEAN :
          NatsSubscribeRegister(p, k[1], k[2], e)
    \/ \E p \in NatsProcs, d \in BOOLEAN : NatsSubscribeInsert(p, d)
    \/ \E k \in NatsPairs, e, d \in BOOLEAN : NatsUnsubscribe(k[1], k[2], e, d)
    \/ \E p \in NatsProcs, k \in NatsPairs : NatsGetMessagesLookup(p, k[1], k[2])
    \/ \E p \in NatsProcs : NatsGetMessagesLockSub(p)
    \/ \E p \in NatsProcs, e \in BOOLEAN : NatsGetMessagesDrain(p, e)
    \/ \E h \in DOMAIN conn : CallbackLock(h)
    \/ \E h \in DOMAIN conn : CallbackAppend(h)
    \/ \E h \in DOMAIN conn : CallbackUnlock(h)

SpecNats == Init /\ [][NextNats]_vars

\* ------------------------------------- the two variants, call for call
\* One sequence of calls given to both variants, each call made when the
\* one before has returned and the broker has handed every message of it to
\* the callbacks.  lastOp is the answer of the in-memory variant, nlast that
\* of the NATS variant.

\* GetMessages of the NATS variant, run without interruption.
natsGetMessages(subs, key, writeErr) ==
    IF key \notin DOMAIN subs
    THEN [subscriptions |-> subs, status |-> StatusNotFound, msgs |-> <<>>]
    ELSE IF Len(subs[key].msgs) = 0
    THEN [subscriptions |-> subs, status |-> StatusNoContent, msgs |-> <<>>]
    ELSE IF jsonMarshal(subs[key].msgs).err \/ writeErr
    THEN [subscriptions |-> [subs EXCEPT ![key].msgs = <<>>],
          status |-> StatusInternalServerError, msgs |-> <<>>]
    ELSE [subscriptions |-> [subs EXCEPT ![key].msgs = <<>>],
          status |-> StatusOK, msgs |-> subs[key].msgs]

\* The callback run from its first statement to its last.
callback(subs, key, m) ==
    LET l == callbackLock(subs, key)
        a == callbackAppend(l.subs, key, m)
        u == callbackUnlock(a.subs, key)
    IN IF l.panic # NoPanic THEN l
       ELSE IF a.panic # NoPanic THEN a
       ELSE u

\* The broker hands every queued message to its callback, subscription by
\* subscription, until none is left or the process has ended.
RECURSIVE deliverAll(_, _)
deliverAll(subs, c) ==
    IF \A h \in DOMAIN c : c[h].pending = <<>>
    THEN [subscriptions |-> subs, conn |-> c, panic |-> NoPanic]
    ELSE LET h == CHOOSE x \in DOMAIN c :
                     /\ c[x].pending # <<>>
                     /\ \A y \in DOMAIN c : c[y].pending # <<>> => x <= y
             r == callback(subs, c[h].key, Head(c[h].pending))
             rest == [c EXCEPT ![h].pending = Tail(@)]
         IN IF r.panic # NoPanic
            THEN [subscriptions |-> r.subs, conn |-> rest, panic |-> r.panic]
            ELSE deliverAll(r.subs, rest)

EquivPublishMessage(topic, body, now) ==
    /\ panicked = NoPanic
    /\ nPub < MaxPub
    /\ LET id == nPub + 1
           r  == PublishMessageResult(topics, topic, body, now, id)
           n  == natsPublishMessage(conn, topic, body, now, id, FALSE)
           d  == deliverAll(subscriptions, n.conn)
       IN /\ topics' = r.topics
          /\ lastOp' = Op("PublishMessage", topic, "", body, r.clock, FALSE, r,
                          EmptyMap)
          /\ subscriptions' = d.subscriptions
          /\ conn' = d.conn
          /\ panicked' = d.panic
          /\ nlast' = NatsCall("PublishMessage", topic, "", n.status, <<>>, <<>>)
          /\ nPub' = id
    /\ UNCHANGED <<pubTo, due, polled, discarded, preSub, preCreate>>
    /\ UNCHANGED <<mutex, npc, nreq, concVars>>

EquivSubscribe(topic, subscriber) ==
    /\ panicked = NoPanic
    /\ Len(conn) < MaxReg
    /\ LET r   == SubscribeResult(topics, topic, subscriber)
           key == mapKey(topic, subscriber)
       IN /\ topics' = r.topics
          /\ lastOp' = Op("Subscribe", topic, subscriber, NilBody, 0, FALSE, r,
                          EmptyMap)
          /\ conn' = connSubscribe(conn, topic, key)
          /\ subscriptions' = natsInsert(subscriptions, key, Len(conn) + 1,
                                         <<topic, subscriber>>)
          /\ nlast' = NatsCall("Subscribe", topic, subscriber, StatusCreated,
                               <<>>, subscriptions'[key].pair)
    /\ UNCHANGED <<nPub, pubTo, due, polled, discarded, preSub, preCreate>>
    /\ UNCHANGED <<mutex, npc, nreq, panicked, concVars>>

EquivUnsubscribe(topic, subscriber) ==
    /\ panicked = NoPanic
    /\ LET r == UnsubscribeResult(topics, topic, subscriber)
           n == natsUnsubscribe(subscriptions, conn, mapKey(topic, subscriber),
                                FALSE)
       IN /\ topics' = r.topics
          /\ lastOp' = Op("Unsubscribe", topic, subscriber, NilBody, 0, FALSE,
                          r, EmptyMap)
          /\ subscriptions' = n.subscriptions
          /\ conn' = n.conn
          /\ nlast' = NatsCall("Unsubscribe", topic, subscriber, n.status,
                               <<>>, n.entry)
    /\ UNCHANGED <<nPub, pubTo, due, polled, discarded, preSub, preCreate>>
    /\ UNCHANGED <<mutex, npc, nreq, panicked, concVars>>

EquivGetMessages(topic, subscriber, writeErr) ==
    /\ panicked = NoPanic
    /\ LET r == GetMessagesResult(topics, topic, subscriber, writeErr)
           n == natsGetMessages(subscriptions, mapKey(topic, subscriber),
                                writeErr)
       IN /\ topics' = r.topics
          /\ lastOp' = Op("GetMessages", topic, subscriber, NilBody, 0, r.fault,
                          r, EmptyMap)
          /\ subscriptions' = n.subscriptions
          /\ nlast' = NatsCall("GetMessages", topic, subscriber, n.status,
                               n.msgs, <<>>)
    /\ UNCHANGED <<nPub, pubTo, due, polled, discarded, preSub, preCreate>>
    /\ UNCHANGED <<mutex, conn, npc, nreq, panicked, concVars>>

NextEquiv ==
    \/ \E t \in Topics, b \in Bodies, now \in Clock :
          EquivPublishMessage(t, b, now)
    \/ \E k \in SubscribeKeys : EquivSubscribe(k[1], k[2])
    \/ \E t \in Topics, s \in Subscribers : EquivUnsubscribe(t, s)
    \/ \E t \in Topics, s \in Subscribers, e \in BOOLEAN :
          EquivGetMessages(t, s, e)

SpecEquiv == Init /\ [][NextEquiv]_vars

\* ------------------------------------------------------------- properties
WT == watch[1]
WS == watch[2]

\* The queue of the watched subscription now, and before the last call.
WQueue   == Buffer(topics, WT, WS)
PreQueue == Buffer(lastOp.pre, WT, WS)

\* How often x occurs in the sequence s.
Count(x, s) == Cardinality({i \in DOMAIN s : s[i] = x})

Range(s) == {s[i] : i \in DOMAIN s}

Increasing(s) == \A i, j \in DOMAIN s : i < j => s[i] < s[j]

\* Every id the watched subscription was given or still holds, oldest first.
Received == polled \o IdSeq(WQueue)

\* C1. Fan-out completeness: a PublishMessage with a well-formed body puts the
\* message, once and at the end, in the queue of every subscriber the topic
\* had when the call began, leaving the set of subscribers as it was; and
\* what is due to a subscription that was not removed is in its queue or was
\* returned by GetMessages, exactly once in all; a GetMessages that answers
\* OK returns each queued message exactly once.
FanOutCompleteness ==
    /\ (lastOp.op = "PublishMessage" /\ lastOp.body.kind # "malformed") =>
          \A s \in Subscribers :
             /\ HasSubscriber(lastOp.pre, WT, s) <=> HasSubscriber(topics, WT, s)
             /\ HasSubscriber(lastOp.pre, WT, s) =>
                   LET old == Buffer(lastOp.pre, WT, s)
                       new == Buffer(topics, WT, s)
                   IN /\ Len(new) = Len(old) + 1
                      /\ SubSeq(new, 1, Len(old)) = old
                      /\ new[Len(new)].id = nPub
                      /\ new[Len(new)].content =
                            unmarshalBody(lastOp.body, ZeroMessage).object.content
                      /\ nPub \notin SeqIds(old)
    /\ \A id \in due \ discarded : Count(id, Received) = 1
    /\ (lastOp.op = "GetMessages" /\ lastOp.status = StatusOK) =>
          \A id \in SeqIds(PreQueue) : Count(id, IdSeq(lastOp.msgs)) = 1

\* C1 witness: one message reached both subscribers of the topic, and the
\* watched one has just polled it while the other still holds it.
FanOutWitness ==
    /\ lastOp.op = "GetMessages"
    /\ lastOp.status = StatusOK
    /\ \E id \in SeqIds(lastOp.msgs) : id \in SeqIds(Buffer(topics, WT, "s2"))

\* C2. Drain exactness: a GetMessages that answers OK returns the whole queue
\* and leaves it empty, so that the next GetMessages, asked of the store as it
\* is, answers NoContent; a GetMessages on an empty queue answers NoContent
\* with no message; and no message is returned by two GetMessages calls.
DrainExactness ==
    /\ (lastOp.op = "GetMessages" /\ lastOp.status = StatusOK) =>
          /\ lastOp.msgs = PreQueue
          /\ HasSubscriber(topics, WT, WS)
          /\ WQueue = <<>>
          /\ \A e \in BOOLEAN :
                LET again == GetMessagesResult(topics, WT, WS, e) IN
                again.status = StatusNoContent /\ again.msgs = <<>>
    /\ (/\ lastOp.op = "GetMessages"
        /\ HasSubscriber(lastOp.pre, WT, WS)
        /\ PreQueue = <<>>) =>
          lastOp.status = StatusNoContent /\ lastOp.msgs = <<>>
    /\ \A i, j \in DOMAIN polled : i # j => polled[i] # polled[j]

\* C2 witness: a GetMessages answered NoContent after an earlier one returned
\* messages, with nothing published in between to that subscription.
DrainWitness ==
    /\ lastOp.op = "GetMessages"
    /\ lastOp.status = StatusNoContent
    /\ polled # <<>>
    /\ due = Range(polled)

\* C3 as stated. No-replay for every Subscribe call: GetMessages never returns
\* a message published to the topic before some earlier Subscribe call of the
\* same subscription, whatever state the subscription was in at that call.
NoReplayAfterAnySubscribe ==
    lastOp.op = "GetMessages" => SeqIds(lastOp.msgs) \cap preSub = {}

\* C3 amended. No-replay for a Subscribe call that creates the subscription:
\* a message published to the topic before it is never queued for the
\* subscription afterwards and never returned by a later GetMessages.
NoReplayAfterCreate ==
    /\ SeqIds(WQueue) \cap preCreate = {}
    /\ lastOp.op = "GetMessages" => SeqIds(lastOp.msgs) \cap preCreate = {}

\* C3 witness: the subscription was created after a message was published to
\* its topic, and a GetMessages has since returned later messages.
NoReplayWitness ==
    /\ lastOp.op = "GetMessages"
    /\ lastOp.status = StatusOK
    /\ preCreate # {}

\* The topic has at least one subscription in the store.
HasSubscription(store, topic) ==
    \E s \in Subscribers : HasSubscriber(store, topic, s)

PollOutcomeThreeWay ==
    lastOp.op = "GetMessages" =>
       /\ lastOp.status = StatusNotFound
             <=> ~HasSubscriber(lastOp.pre, WT, WS)
       /\ lastOp.status = StatusNoContent
             <=> (HasSubscriber(lastOp.pre, WT, WS) /\ PreQueue = <<>>)
       /\ lastOp.status = StatusOK
             <=> (HasSubscriber(lastOp.pre, WT, WS) /\ PreQueue # <<>>)
       /\ lastOp.status \in {StatusNotFound, StatusNoContent}
             => topics = lastOp.pre

\* C5 amended. As above, except that on a non-empty queue the answer is OK iff
\* the response is encoded and written, and InternalServerError iff that
\* fails.
PollOutcome ==
    lastOp.op = "GetMessages" =>
       /\ lastOp.status = StatusNotFound
             <=> ~HasSubscriber(lastOp.pre, WT, WS)
       /\ lastOp.status = StatusNoContent
             <=> (HasSubscriber(lastOp.pre, WT, WS) /\ PreQueue = <<>>)
       /\ lastOp.status = StatusOK
             <=> (/\ HasSubscriber(lastOp.pre, WT, WS)
                  /\ PreQueue # <<>>
                  /\ ~lastOp.fault)
       /\ lastOp.status = StatusInternalServerError
             <=> (/\ HasSubscriber(lastOp.pre, WT, WS)
                  /\ PreQueue # <<>>
                  /\ lastOp.fault)
       /\ lastOp.status \in {StatusNotFound, StatusNoContent}
             => topics = lastOp.pre

\* C5 witness: GetMessages answered NotFound for a subscriber that had
\* unsubscribed from a topic that still has another subscriber.
PollOutcomeWitness ==
    /\ lastOp.op = "GetMessages"
    /\ lastOp.status = StatusNotFound
    /\ HasTopic(lastOp.pre, WT)
    /\ discarded # {}

\* C6. FIFO within a subscription: the messages of a queue are in the order
\* of their PublishMessage calls, and so is everything a subscription was
\* returned, over all its GetMessages calls, followed by what it still holds.
FifoWithinSubscription ==
    /\ \A k \in Keys : Increasing(IdSeq(Buffer(topics, k[1], k[2])))
    /\ Increasing(Received)
    /\ lastOp.op = "GetMessages" => Increasing(IdSeq(lastOp.msgs))

\* C6 witness: one GetMessages returned two messages.
FifoWitness ==
    /\ lastOp.op = "GetMessages"
    /\ lastOp.status = StatusOK
    /\ Len(lastOp.msgs) >= 2

\* C7. Idempotent Subscribe: a Subscribe of an existing subscription answers
\* Created and leaves the whole store, queues included, as it was.
IdempotentSubscribe ==
    (lastOp.op = "Subscribe" /\ HasSubscriber(lastOp.pre, WT, WS)) =>
       /\ lastOp.status = StatusCreated
       /\ topics = lastOp.pre

\* C7 witness: a Subscribe of a subscription holding a message, next to
\* another subscription of the topic that holds one too.
IdempotentSubscribeWitness ==
    /\ lastOp.op = "Subscribe"
    /\ PreQueue # <<>>
    /\ Buffer(lastOp.pre, WT, "s2") # <<>>

\* C8. Unsubscribe answers NotFound iff the subscription is absent, and then
\* leaves the store as it was; otherwise it answers NoContent and removes
\* that subscription and no other, every other queue being as it was.  An
\* Unsubscribe repeated on the store it left changes nothing.
UnsubscribeOutcome ==
    lastOp.op = "Unsubscribe" =>
       /\ lastOp.status = StatusNotFound
             <=> ~HasSubscriber(lastOp.pre, WT, WS)
       /\ lastOp.status = StatusNotFound => topics = lastOp.pre
       /\ HasSubscriber(lastOp.pre, WT, WS) =>
             /\ lastOp.status = StatusNoContent
             /\ SubscriptionsOf(topics) = SubscriptionsOf(lastOp.pre) \ {watch}
             /\ \A k \in SubscriptionsOf(topics) :
                   Buffer(topics, k[1], k[2]) = Buffer(lastOp.pre, k[1], k[2])
       /\ LET again == UnsubscribeResult(topics, WT, WS) IN
          again.topics = topics /\ again.status = StatusNotFound

\* C8 witness: Unsubscribe answered NotFound for a subscriber that had been
\* removed from a topic which still has another subscriber.
UnsubscribeWitness ==
    /\ lastOp.op = "Unsubscribe"
    /\ lastOp.status = StatusNotFound
    /\ HasTopic(lastOp.pre, WT)
    /\ discarded # {}

\* C9. Topic existence: a topic is a key of the store iff it has at least one
\* subscriber; no entry with an empty subscriber map is ever there.
TopicExistence ==
    /\ DOMAIN topics \subseteq Topics
    /\ \A t \in Topics :
          HasTopic(topics, t) <=> \E s \in Subscribers : HasSubscriber(topics, t, s)
    /\ \A t \in DOMAIN topics : DOMAIN topics[t] # {}

\* C9 witness: the Unsubscribe of the last subscriber removed the topic.
TopicExistenceWitness ==
    /\ lastOp.op = "Unsubscribe"
    /\ lastOp.status = StatusNoContent
    /\ HasTopic(lastOp.pre, WT)
    /\ ~HasTopic(topics, WT)

\* C10. Unsubscribe discards unread messages: a message queued when a
\* successful Unsubscribe removed the subscription is gone from the store,
\* is never queued for it again and is never returned by a GetMessages, also
\* after a new Subscribe, which starts the subscription with an empty queue.
UnsubscribeDiscards ==
    /\ discarded \cap SeqIds(WQueue) = {}
    /\ discarded \cap Range(polled) = {}
    /\ (lastOp.op = "Unsubscribe" /\ lastOp.status = StatusNoContent) =>
          ~HasSubscriber(topics, WT, WS)
    /\ (lastOp.op = "Subscribe" /\ ~HasSubscriber(lastOp.pre, WT, WS)) =>
          HasSubscriber(topics, WT, WS) /\ WQueue = <<>>

\* C10 witness: the subscription was removed with a message queued, created
\* again, and has since been returned a later message.
UnsubscribeDiscardsWitness ==
    /\ discarded # {}
    /\ lastOp.op = "GetMessages"
    /\ lastOp.status = StatusOK
    /\ HasSubscriber(topics, WT, WS)

\* The subscribers a store holds for a topic.
SubscribersOf(store, topic) ==
    {s \in Subscribers : HasSubscriber(store, topic, s)}

\* A caller that is inside a handler body, reading or writing the store.
Inside(q) == pc[q] \notin {"idle", "lock"}

\* C11. Atomic fan-out under concurrency: a PublishMessage whose body parses
\* sets out to deliver to every subscriber that was subscribed when the call
\* began and that no Unsubscribe was called for since, and to none that was
\* not subscribed then and that no Subscribe was called for since; while it
\* goes through the subscribers the message is the last of each queue it has
\* visited and in none of the others, the subscriber set stays as it found
\* it, and no other caller is inside a handler body when the message is in
\* some but not all of these queues.
AtomicFanOut ==
    \A p \in Procs :
       LET r == req[p] IN
       (/\ r.op = "PublishMessage"
        /\ r.body.kind # "malformed"
        /\ pc[p] \in {"range", "unlock"}) =>
          /\ r.must \subseteq r.target
          /\ r.target \cap r.mustNot = {}
          /\ r.status = StatusNoContent <=> r.target = {}
          /\ r.status = StatusCreated => r.todo = {} /\ r.target # {}
          /\ SubscribersOf(topics, r.topic) = r.target
          /\ \A s \in r.target \ r.todo :
                LET q == Buffer(topics, r.topic, s) IN
                /\ q # <<>>
                /\ q[Len(q)] = r.msg
                /\ Count(r.id, IdSeq(q)) = 1
          /\ \A s \in r.todo : r.id \notin SeqIds(Buffer(topics, r.topic, s))
          /\ (r.todo # {} /\ r.todo # r.target) =>
                \A q \in Procs \ {p} : ~Inside(q)

\* C11 witness: a PublishMessage has reached one of the two subscribers it
\* has to reach while a GetMessages and an Unsubscribe on the same topic,
\* called after it began, wait for the mutex.
AtomicFanOutWitness ==
    \E p, q1, q2 \in Procs :
       /\ pc[p] = "range"
       /\ req[p].target = {"s1", "s2"}
       /\ Cardinality(req[p].todo) = 1
       /\ req[p].must # {}
       /\ pc[q1] = "lock" /\ req[q1].op = "GetMessages"
       /\ pc[q2] = "lock" /\ req[q2].op = "Unsubscribe"

\* C12. Atomic drain under concurrency: with PublishMessage and GetMessages
\* calls interleaved, every message put in the queue of the watched
\* subscription and not removed with it by an Unsubscribe is, exactly once,
\* either in what GetMessages calls that answered OK returned or still in the
\* queue; nothing is returned twice or returned without having been
\* published; and the queue a GetMessages call encoded is the queue it
\* empties, so a call that returns N messages removes those N and no other.
AtomicDrain ==
    /\ \A id \in due \ discarded : Count(id, Received) = 1
    /\ \A i, j \in DOMAIN polled : i # j => polled[i] # polled[j]
    /\ Range(polled) \subseteq due
    /\ \A p \in Procs :
          LET r == req[p] IN
          /\ pc[p] \in {"write", "empty"} =>
                /\ r.out # <<>>
                /\ r.out = Buffer(topics, r.topic, r.subscriber)
          /\ (pc[p] = "unlock" /\ r.status = StatusOK) =>
                /\ r.out # <<>>
                /\ HasSubscriber(topics, r.topic, r.subscriber)
                /\ Buffer(topics, r.topic, r.subscriber) = <<>>

\* C12 witness: a GetMessages of the watched subscription has encoded a
\* queue and not emptied it yet while a PublishMessage, called meanwhile,
\* waits for the mutex; the other subscriber still holds the message.
AtomicDrainWitness ==
    \E p, q \in Procs :
       /\ pc[p] = "empty"
       /\ Watched(req[p].topic, req[p].subscriber)
       /\ pc[q] = "lock" /\ req[q].op = "PublishMessage"
       /\ SeqIds(req[p].out) \cap SeqIds(Buffer(topics, ConcTopic, "s2")) # {}

\* C13. Broker-assigned timestamp: a PublishMessage that answers Created has
\* read the clock, and the message it leaves at the end of the queue of every
\* subscriber of the topic is one and the same: the content of the request
\* with the clock reading as its published time; the store it leaves is the
\* store the call would have left had the request carried any other
\* published value; and no queued message has a published time that is not
\* a clock reading.
BrokerTimestamp ==
    /\ (lastOp.op = "PublishMessage" /\ lastOp.status = StatusCreated) =>
          LET u == unmarshalBody(lastOp.body, ZeroMessage).object IN
          /\ lastOp.now \in Clock
          /\ \A s \in SubscribersOf(topics, WT) :
                LET q == Buffer(topics, WT, s) IN
                /\ q # <<>>
                /\ q[Len(q)].content = u.content
                /\ q[Len(q)].published = lastOp.now
                /\ q[Len(q)] = lastOp.msgs[1]
          /\ \A c \in CallerTimes \cup Clock :
                PublishMessageResult(lastOp.pre, WT,
                                     [lastOp.body EXCEPT !.published = c],
                                     lastOp.now, nPub).topics = topics
    /\ \A k \in Keys :
          \A i \in DOMAIN Buffer(topics, k[1], k[2]) :
             Buffer(topics, k[1], k[2])[i].published \in Clock

\* C13 witness: a request that carried a published time other than the clock
\* reading was delivered to two subscribers.
BrokerTimestampWitness ==
    /\ lastOp.op = "PublishMessage"
    /\ lastOp.status = StatusCreated
    /\ lastOp.body.published # 0
    /\ lastOp.body.published # lastOp.now
    /\ SubscribersOf(topics, WT) = {"s1", "s2"}

\* C14 as stated. Malformed Publish body: a PublishMessage whose body does
\* not parse is answered with a client error, that is with none of OK,
\* Created, NoContent and InternalServerError, whether or not the topic has
\* subscribers, and leaves the store as it was.
MalformedBodyClientError ==
    (lastOp.op = "PublishMessage" /\ lastOp.body.kind = "malformed") =>
       /\ lastOp.status \notin {StatusOK, StatusCreated, StatusNoContent,
                                StatusInternalServerError}
       /\ topics = lastOp.pre

\* C15 as stated. Poll commits its drain before encoding: a GetMessages on a
\* non-empty queue whose response cannot be encoded or written answers
\* InternalServerError and leaves the queue of the subscription empty.
DrainBeforeEncoding ==
    (lastOp.op = "GetMessages" /\ lastOp.fault) =>
       /\ lastOp.status = StatusInternalServerError
       /\ PreQueue # <<>>
       /\ HasSubscriber(topics, WT, WS)
       /\ WQueue = <<>>


\* C16. Variant equivalence: in every sequence of PublishMessage, Subscribe,
\* Unsubscribe and GetMessages calls given to both variants, each call made
\* after the one before has returned and its deliveries have run, the NATS
\* variant keeps running and answers each call with the status the
\* in-memory variant answers, and each GetMessages with the same messages
\* in the same order.
VariantEquivalence ==
    /\ panicked = NoPanic
    /\ nlast.op # "" =>
          /\ nlast.op = lastOp.op
          /\ nlast.status = lastOp.status
          /\ nlast.msgs = lastOp.msgs


\* The callbacks that hold the Mutex of the entry at key and can go on.
Holders(key) ==
    {h \in DOMAIN conn : conn[h].key = key /\ conn[h].at \in {"append", "unlock"}}

\* C17. Every operation completes (NATS variant): a handler that has
\* started still has a running process to finish it; the global mutex is
\* held only by a GetMessages call in flight; and a GetMessages call that
\* waits, with the global mutex held, for the Mutex of its entry waits for a
\* callback that holds it and needs no other lock to release it.
EveryOperationCompletes ==
    /\ \A p \in NatsProcs : npc[p] # "idle" => panicked = NoPanic
    /\ mutex # NoProc => npc[mutex] \in {"sublock", "drain"}
    /\ \A p \in NatsProcs :
          npc[p] \in {"sublock", "drain"} =>
             LET key == mapKey(nreq[p].topic, nreq[p].subscriber) IN
             /\ mutex = p
             /\ key \in DOMAIN subscriptions
             /\ (npc[p] = "sublock" /\ subscriptions[key].locked) =>
                   Holders(key) # {}


\* The map key of a pair.
keyOf(k) == mapKey(k[1], k[2])

\* The pairs whose map key no other pair has.
Alone(k) == \A j \in NatsPairs \ {k} : keyOf(j) # keyOf(k)

\* The broker subscriptions registered for the pair k that still get
\* messages.
Regs(k) ==
    {h \in DOMAIN conn :
        conn[h].valid /\ conn[h].subject = k[1] /\ conn[h].key = keyOf(k)}

\* A Subscribe of the pair k is between ps.conn.Subscribe and its return.
Subscribing(k) ==
    \E p \in NatsProcs :
       npc[p] = "insert" /\ <<nreq[p].topic, nreq[p].subscriber>> = k

\* C18. Re-subscribe in the NATS variant does not duplicate delivery: for a
\* pair (T,S) that shares its key with no other pair, however often
\* Subscribe(T,S) was called, no published message is twice in the queue of
\* (T,S), and once the entry of (T,S) is removed and no Subscribe(T,S) is
\* in progress, no broker subscription of (T,S) is left to run the callback.
ResubscribeNoDuplicate ==
    \A k \in NatsPairs :
       Alone(k) =>
          /\ keyOf(k) \in DOMAIN subscriptions =>
                LET q == subscriptions[keyOf(k)].msgs IN
                \A i, j \in DOMAIN q : i # j => q[i].id # q[j].id
          /\ (keyOf(k) \notin DOMAIN subscriptions /\ ~Subscribing(k)) =>
                Regs(k) = {}


\* C19. Subscriptions are keyed by the pair (NATS variant): the entry a
\* GetMessages call has found and is about to empty is the one made for
\* its own (topic, subscriber) pair, and the entry the callback of a broker
\* subscription appends to was made for a pair of the topic the
\* subscription listens on, whatever '.' the names contain.
KeyedByPair ==
    /\ \A p \in NatsProcs :
          npc[p] \in {"sublock", "drain"} =>
             LET k == <<nreq[p].topic, nreq[p].subscriber>> IN
             /\ keyOf(k) \in DOMAIN subscriptions
             /\ subscriptions[keyOf(k)].pair = k
    /\ \A h \in DOMAIN conn :
          (conn[h].valid /\ conn[h].key \in DOMAIN subscriptions) =>
             subscriptions[conn[h].key].pair[1] = conn[h].subject


\* C20. The delivery callback always finds its entry (NATS variant): in no
\* interleaving of PublishMessage, Subscribe, Unsubscribe, GetMessages and
\* the broker's deliveries does a statement of the callback look its key up
\* in subscriptions and get no entry, which ends the process with a nil
\* pointer dereference.
CallbackFindsEntry == panicked # NilEntry

====
